---- MODULE Spec2Model ----
(***************************************************************************)
(* Model of src/app.py: a Streamlit voice-dictation page.                  *)
(*                                                                         *)
(* The script is re-run from the top on every interaction.  One run is     *)
(* modelled as the forced sequence                                         *)
(*    interaction (pc = "idle")                                            *)
(*        ->  Transcribe (pc = "call", the whole of transcribe_with_ai)    *)
(*        ->  HandleResult (pc = "returned")                               *)
(*        ->  Render (pc = "render")  ->  "idle", or a new run on          *)
(*            st.rerun()                                                   *)
(* where a run that has nothing to transcribe goes straight to Render,     *)
(* and no interaction is accepted while a run is in progress (Spec).       *)
(* SpecCall follows one call of transcribe_with_ai request by request.     *)
(*                                                                         *)
(* Texts (Python str) are sequences of code points; a longer literal of    *)
(* the source is kept as one token where no operation looks inside it.     *)
(* Python's None is the empty sequence and a present value x is <<x>>.     *)
(***************************************************************************)
EXTENDS Integers, Sequences, FiniteSets, TLC

\* ---------------------------------------------------------------- bounds
\* Reset Draft is accepted while reset_key is below this.
MaxResets == 1
\* Save to Library is accepted while the library holds fewer entries.
MaxHistory == 2
\* A transcript is delivered only while the draft stays within this length.
MaxDraftLen == 4

\* ------------------------------------------------------------ text values
None == <<>>
Some(x) == <<x>>

\* U+26A0 and U+FE0F: the two code points of the marker literal.
WARN == "U+26A0"
VS16 == "U+FE0F"
MARKER == <<WARN, VS16>>

\* Python's str.strip() removes leading and trailing whitespace.
Whitespace == {" ", "\n"}

RECURSIVE LStrip(_)
LStrip(s) ==
    IF s # <<>> /\ Head(s) \in Whitespace THEN LStrip(Tail(s)) ELSE s

RECURSIVE RStrip(_)
RStrip(s) ==
    IF s # <<>> /\ s[Len(s)] \in Whitespace
    THEN RStrip(SubSeq(s, 1, Len(s) - 1))
    ELSE s

Strip(s) == RStrip(LStrip(s))

\* Python's  sub in s  on strings: sub occurs as a contiguous slice of s.
Contains(s, sub) ==
    \E k \in 0..(Len(s) - Len(sub)) : SubSeq(s, k + 1, k + Len(sub)) = sub

StartsWith(s, pre) ==
    Len(s) >= Len(pre) /\ SubSeq(s, 1, Len(pre)) = pre

\* ----------------------------------------------------- the remote service
\* Transcripts the service may put in candidates[0].content.parts[0].text.
Transcripts ==
    { <<"a">>, <<" ", "a", "\n">>, <<" ">>, <<"a", WARN, VS16>> }

\* str(e) of a raised exception, and response.text of an error response.
ErrTexts == { <<"err">> }

\* Status codes other than 200, 429 and 403.
OtherStatuses == {500}

\* requests.post raised (timeout, connection error).
Raise(e) == [kind |-> "raise", status |-> 0, json |-> "none", text |-> e]

\* requests.post returned.  json is what response.json() yields:
\*   "candidates": a body whose first candidate carries the transcript text;
\*   "empty":      a body without candidates, or with an empty list of them;
\*   "invalid":    decoding the body, or the lookup of the transcript in it,
\*                 raises (not JSON, a candidate without content/parts/text).
Response(s, j, t) == [kind |-> "response", status |-> s, json |-> j, text |-> t]

Outcomes ==
    {Raise(e) : e \in ErrTexts}
    \cup {Response(200, "candidates", t) : t \in Transcripts}
    \cup {Response(200, "empty", <<>>)}
    \cup {Response(200, "invalid", e) : e \in ErrTexts}
    \cup {Response(429, "none", e) : e \in ErrTexts}
    \cup {Response(403, "none", e) : e \in ErrTexts}
    \cup {Response(s, "none", e) : s \in OtherStatuses, e \in ErrTexts}

\* The attempt raised inside the try block: requests.post itself, or the
\* decoding of a 200 body.
RaisedInTry(o) ==
    o.kind = "raise" \/ (o.status = 200 /\ o.json = "invalid")

\* The service answered 200 with a candidate transcript.
Transcribed(o) ==
    o.kind = "response" /\ o.status = 200 /\ o.json = "candidates"

\* -------------------------------------------------- transcribe_with_ai
\* A loop of one iteration more.
max_retries_plus_one == 5 + 1
max_retries == 5

MSG_NO_SPEECH ==
    MARKER \o <<" AI processed the file but found no transcribable speech.">>
MSG_403 ==
    MARKER \o <<" API Access Denied (403). Please wait a moment and try again. This is usually a temporary connection issue.">>
MSG_API_ERROR(code, text) ==
    MARKER \o <<" API Error (", ToString(code), "): ">> \o text
MSG_SYSTEM_ERROR(e) ==
    MARKER \o <<" System error: ">> \o e
MSG_TIMED_OUT ==
    MARKER \o <<" Connection timed out. The story recording might be too long or the internet is slow.">>

Return(text) == [act |-> "return", value |-> text, sleep |-> <<>>]
Continue(secs) == [act |-> "continue", value |-> <<>>, sleep |-> <<secs>>]
Propagate == [act |-> "raise", value |-> <<>>, sleep |-> <<>>]

\* The except clause: the last attempt returns, an earlier one sleeps.
Except(k, e) ==
    IF k = max_retries - 1
    THEN Return(MSG_SYSTEM_ERROR(e))
    ELSE Continue(2 ^ k)

\* The 429 branch: sleep, then continue, on every attempt.
RateLimited(k) == Continue(2 ^ k)

\* The 200 branch.
OnOk(k, o) ==
    CASE o.json = "candidates" -> Return(Strip(o.text))
      [] o.json = "empty" -> Return(MSG_NO_SPEECH)
      [] OTHER -> Except(k, o.text)

\* An iteration that treats a 403 as it treats a 429.
AttemptRetry403(k, o) ==
    CASE o.kind = "raise" -> Except(k, o.text)
      [] o.status = 200 -> OnOk(k, o)
      [] o.status = 429 -> RateLimited(k)
      [] o.status = 403 -> RateLimited(k)
      [] OTHER -> Return(MSG_API_ERROR(o.status, o.text))

\* One iteration of the for loop, attempt number k (0-based), on outcome o.
Attempt(k, o) ==
    CASE o.kind = "raise" -> Except(k, o.text)
      [] o.status = 200 -> OnOk(k, o)
      [] o.status = 429 -> RateLimited(k)
      [] o.status = 403 -> Return(MSG_403)
      [] OTHER -> Return(MSG_API_ERROR(o.status, o.text))

\* The state of a call: "running" (blocked in the next requests.post),
\* "returned" with its value, or "raised" (an exception left the function).
\* posts counts the requests answered, slept lists the time.sleep arguments,
\* last is the outcome of the latest request.
CallState(st, v, n, sl, o) ==
    [state |-> st, value |-> v, posts |-> n, slept |-> sl, last |-> o]

\* Lines 76-106: the for loop from iteration k on, the outcomes of the
\* coming requests being outs; sl and o as above.
RECURSIVE Loop(_, _, _, _)
Loop(k, outs, sl, o) ==
    IF k >= max_retries
    THEN CallState("returned", MSG_TIMED_OUT, k, sl, o)
    ELSE IF outs = <<>>
    THEN CallState("running", <<>>, k, sl, o)
    ELSE LET r == Attempt(k, Head(outs))
         IN  CASE r.act = "return" ->
                    CallState("returned", r.value, k + 1, sl, Some(Head(outs)))
               [] r.act = "continue" ->
                    Loop(k + 1, Tail(outs), sl \o r.sleep, Some(Head(outs)))
               [] OTHER ->
                    CallState("raised", <<>>, k + 1, sl, Some(Head(outs)))

transcribe_with_ai(outs) == Loop(0, outs, <<>>, None)

\* The sequences of outcomes that take a call to its end.
RECURSIVE RunsFrom(_)
RunsFrom(outs) ==
    IF transcribe_with_ai(outs).state = "running"
    THEN UNION {RunsFrom(Append(outs, o)) : o \in Outcomes}
    ELSE {outs}

\* What the caller can get from a call: the returned value, with the
\* outcome of the call's last request.
CallResults ==
    { [value |-> transcribe_with_ai(outs).value,
       last |-> transcribe_with_ai(outs).last] :
      outs \in {r \in RunsFrom(<<>>) : transcribe_with_ai(r).state = "returned"} }

\* ------------------------------------------------------------ the session
\* The clips the microphone widget may hand over (UploadedFile name, size).
Clips == { [name |-> "audio.wav", size |-> 1], [name |-> "audio.wav", size |-> 2] }

\* current_hash = f"{audio_file.name}_{audio_file.size}"
AudioHash(c) == c.name \o "_" \o ToString(c.size)

Languages == {"Myanmar", "English (US)"}

\* What the user may type into the draft text area (<<>>: clears it).
EditTexts == { <<>>, <<"e">> }

\* What the user may type as chapter name; <<>> keeps the pre-filled value.
TitleInputs == { <<>>, <<"My chapter">> }

\* Readings of datetime.datetime.now().strftime("%Y-%m-%d %H:%M").
Dates == { "2025-01-01 10:00" }

VARIABLES
    history,                    \* st.session_state.history
    current_text,               \* st.session_state.current_text
    last_processed_audio_hash,  \* st.session_state.last_processed_audio_hash
    reset_key,                  \* st.session_state.reset_key
    audio_file,                 \* value of the st.audio_input widget
    lang_choice,                \* value of the sidebar radio
    editor_shown,               \* the draft editor is on the page
    pc,                         \* position of the script run
    trigger,                    \* the interaction that started the run
    result,                     \* value returned by transcribe_with_ai
    resp,                       \* outcome of the last request of that call
    status,                     \* state of the st.status box of the run
    served,                     \* outcomes of the requests of the call so far
    sent                        \* hashes of the clips sent to the service

vars == <<history, current_text, last_processed_audio_hash, reset_key,
          audio_file, lang_choice, editor_shown, pc, trigger,
          result, resp, status, served, sent>>

session == <<history, current_text, last_processed_audio_hash, reset_key>>
widgets == <<audio_file, lang_choice, editor_shown>>
call == <<result, resp, status, served>>

\* Lines 32-39, and the widgets of a fresh page.
Init ==
    /\ history = <<>>
    /\ current_text = <<>>
    /\ last_processed_audio_hash = None
    /\ reset_key = 0
    /\ audio_file = None
    /\ lang_choice = "Myanmar"
    /\ editor_shown = FALSE
    /\ pc = "idle"
    /\ trigger = "none"
    /\ result = None
    /\ resp = None
    /\ status = "none"
    /\ served = <<>>
    /\ sent = {}

\* --------------------------------------------------------- the script run
\* A test that forgets the last processed hash.
NeedsTranscriptionAlways(file, last) == file # None

\* Lines 135-138: the clip is sent unless its hash is the last processed.
NeedsTranscription(file, last) ==
    /\ file # None
    /\ last # Some(AudioHash(file[1]))

\* Lines 128-141, up to the call of transcribe_with_ai: the start of a run
\* in which the microphone widget holds file and the last processed hash is
\* last.
AudioInput(file, last) ==
    IF NeedsTranscription(file, last)
    THEN /\ pc' = "call"
         /\ sent' = sent \cup {AudioHash(file[1])}
    ELSE /\ pc' = "render"
         /\ UNCHANGED sent

\* ----------------------------------------------------------- interactions
\* A change of a widget's value starts a run of the script from the top.
RecordAudio(c) ==
    /\ pc = "idle"
    /\ audio_file' = Some(c)
    /\ trigger' = "widget"
    /\ AudioInput(Some(c), last_processed_audio_hash)
    /\ UNCHANGED <<session, lang_choice, editor_shown, call>>

\* The user deletes the recording from the widget.
DiscardAudio ==
    /\ pc = "idle"
    /\ audio_file # None
    /\ audio_file' = None
    /\ trigger' = "widget"
    /\ AudioInput(None, last_processed_audio_hash)
    /\ UNCHANGED <<session, lang_choice, editor_shown, call>>

\* The user picks the other language in the sidebar.
ChooseLanguage(l) ==
    /\ pc = "idle"
    /\ l # lang_choice
    /\ lang_choice' = l
    /\ trigger' = "widget"
    /\ AudioInput(audio_file, last_processed_audio_hash)
    /\ UNCHANGED <<session, audio_file, editor_shown, call>>

\* A click, or an edit of the draft, starts a run that carries it.
Interact(what) ==
    /\ pc = "idle"
    /\ trigger' = what
    /\ AudioInput(audio_file, last_processed_audio_hash)
    /\ UNCHANGED <<session, widgets, call>>

\* The user edits the draft in the text area, which must be on the page.
EditDraft == editor_shown /\ Interact("edit")

\* Copy Story and Reset Draft are rendered with the editor.
ClickCopy == editor_shown /\ Interact("copy")

ClickReset == editor_shown /\ reset_key < MaxResets /\ Interact("reset")

\* Save to Library is rendered when the draft was non-empty at line 183.
ClickSave == current_text # <<>> /\ Len(history) < MaxHistory /\ Interact("save")

\* A Restore button is rendered for every entry of the library.
ClickRestore == history # <<>> /\ Interact("restore")

\* ------------------------------------------------------ the rest of a run
\* Lines 147-151: append to a non-empty draft, replace an empty one.
AppendDraft(draft, text) ==
    IF draft # <<>> THEN draft \o <<"\n", "\n">> \o text ELSE text

\* Line 143: the caller's test for a failure.
IsFailure(text) == Contains(text, MARKER)

\* The returned text keeps the draft within the model's length bound.
Fits(text) ==
    ~IsFailure(text) => Len(AppendDraft(current_text, text)) <= MaxDraftLen

\* Line 141: the call of transcribe_with_ai, from its first request to its
\* return.
Transcribe ==
    /\ pc = "call"
    /\ \E r \in CallResults :
        /\ Fits(r.value)
        /\ result' = Some(r.value)
        /\ resp' = r.last
    /\ pc' = "returned"
    /\ UNCHANGED <<session, widgets, trigger, status, served, sent>>

\* A handler that records the hash whether or not the call succeeded.
HandleResultMarksAlways ==
    /\ pc = "returned"
    /\ pc' = "render"
    /\ IF IsFailure(result[1])
       THEN /\ status' = "error"
            /\ UNCHANGED current_text
       ELSE /\ current_text' = AppendDraft(current_text, result[1])
            /\ status' = "complete"
    /\ last_processed_audio_hash' = Some(AudioHash(audio_file[1]))
    /\ result' = None
    /\ resp' = None
    /\ UNCHANGED <<history, reset_key, widgets, trigger, served, sent>>

\* Lines 143-155.
HandleResult ==
    /\ pc = "returned"
    /\ pc' = "render"
    /\ IF IsFailure(result[1])
       THEN /\ status' = "error"
            /\ UNCHANGED <<current_text, last_processed_audio_hash>>
       ELSE /\ current_text' = AppendDraft(current_text, result[1])
            /\ last_processed_audio_hash' = Some(AudioHash(audio_file[1]))
            /\ status' = "complete"
    /\ result' = None
    /\ resp' = None
    /\ UNCHANGED <<history, reset_key, widgets, trigger, served, sent>>

\* Line 158: the editor block is rendered for a non-empty draft.
EditorRendered == current_text # <<>>

\* The run carries an edit of the text area: the user edited the draft, or
\* clicked Save to Library with an edit that was not sent yet.
Typed == editor_shown /\ trigger \in {"edit", "save"}

\* Lines 160-165: st.text_area returns its value argument, or what the user
\* typed into it when the run carries an edit (which may also be dropped).
TextArea == IF Typed THEN EditTexts \cup {current_text} ELSE {current_text}

\* The draft after lines 158-165.
Edited(tv) == IF EditorRendered THEN tv ELSE current_text

\* The run is over: the page waits for the next interaction.
EndRun ==
    /\ pc' = "idle"
    /\ trigger' = "none"
    /\ status' = "none"
    /\ UNCHANGED <<result, resp>>
    /\ UNCHANGED <<served, sent>>

\* st.rerun(): the run is abandoned and a new one starts from the top, the
\* microphone widget holding file and the last processed hash being last.
StRerun(file, last) ==
    /\ trigger' = "none"
    /\ status' = "none"
    /\ UNCHANGED <<result, resp>>
    /\ AudioInput(file, last)
    /\ UNCHANGED served

\* A reset that leaves the last processed hash in place.
ResetDraftKeepsHash ==
    /\ pc = "render"
    /\ EditorRendered
    /\ trigger = "reset"
    /\ current_text' = <<>>
    /\ reset_key' = reset_key + 1
    /\ audio_file' = None
    /\ editor_shown' = TRUE
    /\ StRerun(None, last_processed_audio_hash)
    /\ UNCHANGED <<history, last_processed_audio_hash, lang_choice>>

\* Lines 157-177 of a run in which Reset Draft was clicked.  The new
\* reset_key gives the microphone widget of line 130 a new key: the widget
\* of the next run is a fresh one and holds no clip.
ResetDraft ==
    /\ pc = "render"
    /\ EditorRendered
    /\ trigger = "reset"
    /\ current_text' = <<>>
    /\ last_processed_audio_hash' = None
    /\ reset_key' = reset_key + 1
    /\ audio_file' = None
    /\ editor_shown' = TRUE
    /\ StRerun(None, None)
    /\ UNCHANGED <<history, lang_choice>>

\* Line 185: st.text_input returns the pre-filled chapter name, or what
\* the user typed (typed = <<>>: nothing).
ChapterName(typed_name) ==
    IF typed_name = <<>>
    THEN <<"Chapter ", ToString(Len(history) + 1)>>
    ELSE typed_name

\* Lines 188-193.
NewEntry(c_title, text, date) ==
    [title |-> c_title, text |-> text, lang |-> lang_choice, date |-> date]

\* A save that puts the new entry first.
SaveEntryFirst(c_title, text, date) == <<NewEntry(c_title, text, date)>> \o history

SaveEntry(c_title, text, date) == Append(history, NewEntry(c_title, text, date))

\* A save form that is rendered whatever the draft.
SaveRenderedAlways(text) == TRUE

\* Line 183: the save form is rendered for a non-empty draft.
SaveRendered(text) == text # <<>>

\* Lines 157-208 of a run in which Save to Library was clicked.
SaveToLibrary ==
    /\ pc = "render"
    /\ trigger = "save"
    /\ \E tv \in TextArea, t \in TitleInputs, d \in Dates :
        /\ SaveRendered(Edited(tv))
        /\ current_text' = Edited(tv)
        /\ history' = SaveEntry(ChapterName(t), Edited(tv), d)
    /\ editor_shown' = EditorRendered
    /\ EndRun
    /\ UNCHANGED <<last_processed_audio_hash, reset_key, audio_file, lang_choice>>

\* Line 202: the idx-th item of reversed(history), idx counted from 0.
Reversed(idx) == history[Len(history) - idx]

\* Lines 157-208 of a run in which a Restore button was clicked.
RestoreDraft ==
    /\ pc = "render"
    /\ trigger = "restore"
    /\ history # <<>>
    /\ \E idx \in 0..(Len(history) - 1) :
        current_text' = Reversed(idx).text
    /\ editor_shown' = EditorRendered
    /\ StRerun(audio_file, last_processed_audio_hash)
    /\ UNCHANGED <<history, last_processed_audio_hash, reset_key, audio_file,
                   lang_choice>>

\* Lines 157-208 of a run in which no button handler changes the session:
\* no button, Copy Story, or a button that this run does not render.
Render ==
    /\ pc = "render"
    /\ trigger = "reset" => ~EditorRendered
    /\ trigger = "restore" => history = <<>>
    /\ \E tv \in TextArea :
        /\ trigger = "save" => ~SaveRendered(Edited(tv))
        /\ current_text' = Edited(tv)
    /\ editor_shown' = EditorRendered
    /\ EndRun
    /\ UNCHANGED <<history, last_processed_audio_hash, reset_key, audio_file,
                   lang_choice>>

Next ==
    \/ \E c \in Clips : RecordAudio(c)
    \/ DiscardAudio
    \/ \E l \in Languages : ChooseLanguage(l)
    \/ EditDraft
    \/ ClickCopy
    \/ ClickReset
    \/ ClickSave
    \/ ClickRestore
    \/ Transcribe
    \/ HandleResult
    \/ ResetDraft
    \/ SaveToLibrary
    \/ RestoreDraft
    \/ Render

Spec == Init /\ [][Next]_vars

\* ------------------------------------------- one call, request by request
\* A call of transcribe_with_ai has just been made.
InitCall ==
    /\ history = <<>>
    /\ current_text = <<>>
    /\ last_processed_audio_hash = None
    /\ reset_key = 0
    /\ audio_file \in {Some(c) : c \in Clips}
    /\ lang_choice \in Languages
    /\ editor_shown = FALSE
    /\ pc = "call"
    /\ trigger = "widget"
    /\ result = None
    /\ resp = None
    /\ status = "none"
    /\ served = <<>>
    /\ sent = {AudioHash(audio_file[1])}

\* Line 79: the pending requests.post ends with outcome o.
Request(o) ==
    /\ pc = "call"
    /\ transcribe_with_ai(served).state = "running"
    /\ served' = Append(served, o)
    /\ UNCHANGED <<session, widgets, trigger, pc, result, resp, status, sent>>

NextCall == \E o \in Outcomes : Request(o)

SpecCall == InitCall /\ [][NextCall]_vars

\* ------------------------------------------------------------- properties
RECURSIVE Sum(_)
Sum(seq) == IF seq = <<>> THEN 0 ELSE Head(seq) + Sum(Tail(seq))

IsText(v) == DOMAIN v = 1..Len(v) /\ \A k \in 1..Len(v) : v[k] \in STRING

\* The call as it stands after the requests served so far.
TheCall == transcribe_with_ai(served)

\* C1: one call of transcribe_with_ai sends at most 5 requests, whatever
\* their outcomes: no exception leaves the function, what it returns is a
\* string, and once 5 requests have been answered it has returned.
C1_AtMostFiveRequests ==
    /\ Len(served) <= 5
    /\ TheCall.posts <= 5
    /\ TheCall.state \in {"running", "returned"}
    /\ TheCall.state = "returned" => IsText(TheCall.value)
    /\ Len(served) = 5 => TheCall.state = "returned"

\* C1 witness: the fifth request raised and the call returned its message.
C1_Witness ==
    /\ Len(served) = 5
    /\ served[5].kind = "raise"
    /\ TheCall.state = "returned"
    /\ TheCall.posts = 5

\* The outcome of the request that the step served.
Served == served'[Len(served')]

\* A step of the call that serves one more request.
Serves == served' # served

\* After the step the call goes on to a further request.
GoesOn == transcribe_with_ai(served').state = "running"

\* The step ends the call without sleeping.
EndsAtOnce ==
    /\ transcribe_with_ai(served').state = "returned"
    /\ transcribe_with_ai(served').slept = TheCall.slept
    /\ transcribe_with_ai(served').posts = Len(served')

\* C7 as stated: a further attempt is made exactly when the attempt answered
\* 429 or raised an exception and fewer than 5 attempts have been made; a
\* 200, a 403 or any other status ends the call at that attempt with no
\* sleep and no further request.
C7_AnyOkEndsTheCall ==
    [][Serves =>
        /\ GoesOn <=> ((Served.status = 429 \/ RaisedInTry(Served))
                          /\ Len(served') < 5)
        /\ (Served.kind = "response" /\ Served.status # 429) => EndsAtOnce
      ]_vars

\* C7 as amended: a further attempt is made exactly when the attempt answered
\* 429 or raised inside the try block (requests.post raised, or the body of
\* a 200 could not be decoded) and fewer than 5 attempts have been made; a
\* 200 whose body is decoded, a 403 or any other status ends the call at
\* that attempt with no sleep and no further request.
C7_RetriesOnlyTransient ==
    [][Serves =>
        /\ GoesOn <=> ((Served.status = 429 \/ RaisedInTry(Served))
                          /\ Len(served') < 5)
        /\ (Served.kind = "response" /\ Served.status # 429
                /\ ~RaisedInTry(Served)) => EndsAtOnce
      ]_vars

\* C7 witness: a 429, then a 200 that cannot be decoded, then a transcript.
C7_Witness ==
    /\ Len(served) = 3
    /\ served[1].status = 429
    /\ served[2].status = 200 /\ served[2].json = "invalid"
    /\ Transcribed(served[3])
    /\ TheCall.state = "returned"
    /\ TheCall.slept = <<1, 2>>

\* C8 as stated: the wait after attempt k (k = 1..4) is 2^(k-1) seconds,
\* nothing is slept once the last attempt has failed, and one call sleeps
\* at most 15 seconds in total.
C8_SleepsOnlyBetweenAttempts ==
    /\ \A k \in 1..Len(TheCall.slept) : TheCall.slept[k] = 2 ^ (k - 1)
    /\ Len(TheCall.slept) <= 4
    /\ TheCall.state = "returned" => Len(TheCall.slept) < TheCall.posts
    /\ Sum(TheCall.slept) <= 15

\* ------------------------------------------------- properties of a session
\* The run is handling the value that transcribe_with_ai returned.
Handling == pc = "returned"

\* The service answered the call with a transcript.
Succeeded == Handling /\ Transcribed(resp[1])

\* A run starts: from the idle page, or by st.rerun().
RunStarts ==
    \/ pc = "idle" /\ pc' # "idle"
    \/ pc = "render" /\ pc' \in {"call", "render"}

\* C2 as stated: within a session a clip (an AudioHash) that has been sent
\* to transcribe_with_ai is not sent again.
C2_SentAtMostOnce ==
    [][pc' = "call" /\ pc # "call" => AudioHash(audio_file'[1]) \notin sent]_vars

\* C2 as amended: once the transcription of a clip has succeeded its hash is
\* the last processed one, which changes only by a later successful
\* transcription or a Reset Draft; a run that starts while the widget holds
\* the clip of the last processed hash does not call transcribe_with_ai,
\* and a run that starts with any other clip does (so a clip whose
\* transcription failed is sent again).
C2_LastProcessedNotResent ==
    /\ [][(Handling /\ ~Contains(result[1], MARKER))
            => last_processed_audio_hash' = Some(AudioHash(audio_file[1]))]_vars
    /\ [][last_processed_audio_hash' # last_processed_audio_hash
            => \/ Handling /\ ~Contains(result[1], MARKER)
               \/ reset_key' = reset_key + 1]_vars
    /\ [][RunStarts =>
            (pc' = "call" <=>
                /\ audio_file' # None
                /\ last_processed_audio_hash' # Some(AudioHash(audio_file'[1])))]_vars

\* C2 witness: a run started by a click while the widget holds the clip
\* that was transcribed last, and it went past the call.
C2_Witness ==
    /\ pc = "render"
    /\ trigger = "copy"
    /\ status = "none"
    /\ audio_file # None
    /\ last_processed_audio_hash = Some(AudioHash(audio_file[1]))
    /\ AudioHash(audio_file[1]) \in sent

\* C3 as stated: when the service answers 200 with a transcript T, the draft
\* becomes T stripped if it was empty and else the old draft, a blank line
\* and T stripped.
C3_TranscriptReachesDraft ==
    [][Succeeded =>
        current_text' =
            IF current_text = <<>>
            THEN Strip(resp[1].text)
            ELSE current_text \o <<"\n", "\n">> \o Strip(resp[1].text)]_vars

\* C5 as stated: every failure of a call is returned as a text that starts
\* with the marker, and the caller takes the returned text for a failure
\* exactly when the service did not answer with a transcript.
C5_FailureIffNoTranscript ==
    Handling =>
        /\ ~Transcribed(resp[1]) => StartsWith(result[1], MARKER)
        /\ Contains(result[1], MARKER) <=> ~Transcribed(resp[1])

\* C9 as stated: from the failure of a transcription to the end of that
\* run, the draft, the last processed hash and the library stay as they are.
C9_FailedRunKeepsState ==
    [][(status = "error" \/ (Handling /\ Contains(result[1], MARKER)))
        => UNCHANGED <<current_text, last_processed_audio_hash, history>>]_vars

\* C9 as amended: the handling of a failed transcription (lines 143-145)
\* leaves the draft, the last processed hash and the library as they are,
\* while the rest of that run still carries out the edit or the click that
\* started it; and the last processed hash is set to a clip's hash only by
\* the handling of a successful transcription of that clip.
C9_FailureHandlingKeepsState ==
    /\ [][(Handling /\ Contains(result[1], MARKER))
            => UNCHANGED <<current_text, last_processed_audio_hash, history>>]_vars
    /\ [][(last_processed_audio_hash' # last_processed_audio_hash
            /\ last_processed_audio_hash' # None)
            => /\ Handling
               /\ ~Contains(result[1], MARKER)
               /\ last_processed_audio_hash' = Some(AudioHash(audio_file[1]))]_vars

\* C9 witness: a failure was handled after an earlier success, whose draft
\* and hash are still there.
C9_Witness ==
    /\ pc = "render"
    /\ status = "error"
    /\ current_text # <<>>
    /\ last_processed_audio_hash # None
    /\ last_processed_audio_hash # Some(AudioHash(audio_file[1]))

\* C4: the library only grows, and only by Save to Library, which appends
\* one entry made of the draft, the chapter name, the language and the time.
C4_HistoryAppendOnly ==
    [][\/ history' = history
       \/ /\ pc = "render"
          /\ trigger = "save"
          /\ \E t \in TitleInputs, d \in Dates :
                history' = history \o
                    << [title |-> IF t = <<>>
                                  THEN <<"Chapter ", ToString(Len(history) + 1)>>
                                  ELSE t,
                        text |-> current_text',
                        lang |-> lang_choice,
                        date |-> d] >>
      ]_vars

\* C4 witness: two different entries have been saved.
C4_Witness ==
    /\ Len(history) = 2
    /\ history[1].text # history[2].text
    /\ history[1].lang # history[2].lang

\* C6: Reset Draft empties the draft, forgets the last processed hash, adds
\* 1 to reset_key and leaves the library alone; an empty draft becomes
\* non-empty only by the handling of a transcript or by a Restore.
C6_ResetClearsDraft ==
    /\ [][(pc = "render" /\ trigger = "reset" /\ current_text # <<>>)
            => /\ current_text' = <<>>
               /\ last_processed_audio_hash' = None
               /\ reset_key' = reset_key + 1
               /\ history' = history]_vars
    /\ [][(current_text = <<>> /\ current_text' # <<>>)
            => \/ Succeeded
               \/ pc = "render" /\ trigger = "restore"]_vars

\* C6 witness: the draft has been reset while the library holds an entry and
\* a clip had been processed.
C6_Witness ==
    /\ pc = "idle"
    /\ reset_key = 1
    /\ current_text = <<>>
    /\ last_processed_audio_hash = None
    /\ history # <<>>
    /\ sent # {}

\* C10: every entry of the library holds a non-empty text.
C10_EntriesNonEmpty ==
    \A k \in 1..Len(history) : history[k].text # <<>>

\* C10 witness: the library holds an entry and the draft was then cleared in
\* the text area.
C10_Witness ==
    /\ pc = "idle"
    /\ history # <<>>
    /\ current_text = <<>>
    /\ editor_shown

====
